---- MODULE Spec2Model ----
(***************************************************************************)
(* A model of melvin.py: Pager (a byte marker into a file, moved by line   *)
(* and by page), reverse_readline (the backward scanner), PagerUI (the     *)
(* pane and its search) and MultiPager (the key dispatch to every pane);   *)
(* and of mess.py: the main loop of the pager over an index of line        *)
(* offsets.                                                                *)
(*                                                                         *)
(* A file is the sequence of its bytes; the byte at offset o is f[o+1].    *)
(* Offsets (marker, last_page, the handle's position) are 0-based as in    *)
(* the code.                                                               *)
(***************************************************************************)
EXTENDS Integers, Sequences, FiniteSets, TLC

\* ------------------------------------------------------------------ bounds
\* Number of bytes one session opens: n files of at most MaxBytes \div n
\* bytes each.
MaxBytes == 4
\* Largest number of files (panes) given on the command line.
MaxPanes == 2
\* Largest ws_row the terminal reports.
MaxWsRow == 4
\* buf_size of reverse_readline (8192 in the source), scaled down so that
\* lines longer than the scan buffer occur within MaxBytes.
BufSize == 2
\* Longest run of operations the history variable counts.
MaxRun == 3

\* ------------------------------------------------------------------- bytes
NL  == "\n"
TAB == "\t"
SPC == " "
\* The code tells the terminator from the other bytes, and of those
\* get_page rewrites the tab: the tab stands for every byte that is not a
\* terminator, so that a rendered line differs from the bytes it was read from.
Bytes == {TAB, NL}

Min(a, b) == IF a < b THEN a ELSE b
Max(a, b) == IF a > b THEN a ELSE b
SetMin(S) == CHOOSE x \in S : \A y \in S : x <= y
SetMax(S) == CHOOSE x \in S : \A y \in S : x >= y

\* the files of at most n bytes
FilesUpTo(n) == UNION {[1..k -> Bytes] : k \in 0..n}

\* the command lines of n files
FileLists(n) == [1..n -> FilesUpTo(MaxBytes \div n)]

\* os.path.getsize
size(f) == Len(f)

\* fi.read(k) with the handle at offset p: the bytes read and the new position
read(f, p, k) ==
    LET stop == Min(p + k, Len(f))
    IN  IF p >= Len(f) THEN [data |-> <<>>, pos |-> p]
        ELSE [data |-> SubSeq(f, p + 1, stop), pos |-> stop]

\* fi.readline() with the handle at offset p: up to and including the next
\* terminator, or up to end of file; empty at end of file
readline(f, p) ==
    LET nls == {i \in (p + 1)..Len(f) : f[i] = NL}
    IN  IF p >= Len(f) THEN <<>>
        ELSE IF nls = {} THEN SubSeq(f, p + 1, Len(f))
        ELSE SubSeq(f, p + 1, SetMin(nls))

\* buff.split('\n')[-1]: what follows the last terminator of buff
split_last(buff) ==
    LET nls == {i \in 1..Len(buff) : buff[i] = NL}
    IN  IF nls = {} THEN buff
        ELSE SubSeq(buff, SetMax(nls) + 1, Len(buff))

\* line.replace('\t', '    ')
RECURSIVE replace_tabs(_)
replace_tabs(line) ==
    IF line = <<>> THEN <<>>
    ELSE (IF Head(line) = TAB THEN <<SPC, SPC, SPC, SPC>> ELSE <<Head(line)>>)
         \o replace_tabs(Tail(line))

\* -------------------------------------------------------- reverse_readline
\* The line text returned and the position the handle is left at.
reverse_readline(f, start_pos) ==
    LET remaining_size == start_pos
        chunk_size == Min(remaining_size, BufSize)
        r == read(f, remaining_size - chunk_size, chunk_size)
    IN  [line |-> split_last(r.data), pos |-> r.pos]

\* ------------------------------------------------------------------- Pager
\* A pager is [marker, pos, last_page]; pos is the position of its handle fi.

up_clamp1(f, s) ==
    LET r == reverse_readline(f, s.marker)
    IN  [s EXCEPT !.marker = Max(1, s.marker - (Len(r.line) + 1)),
                  !.pos = r.pos]

up_wholeline(f, s) ==
    LET r == reverse_readline(f, s.marker)
    IN  [s EXCEPT !.marker = Max(0, s.marker - Len(r.line)),
                  !.pos = r.pos]

up(f, s) ==
    LET r == reverse_readline(f, s.marker)
    IN  [s EXCEPT !.marker = Max(0, s.marker - (Len(r.line) + 1)),
                  !.pos = r.pos]

down_noclamp(f, s) ==
    LET next_line == readline(f, s.pos)
    IN  [s EXCEPT !.marker = s.marker + Len(next_line),
                  !.pos = s.pos + Len(next_line)]

down_stripped(f, s) ==
    LET next_line == readline(f, s.pos)
    IN  [s EXCEPT !.marker = Min(s.last_page,
                                 s.marker + Max(0, Len(next_line) - 1)),
                  !.pos = s.pos + Len(next_line)]

down(f, s) ==
    LET next_line == readline(f, s.pos)
    IN  [s EXCEPT !.marker = Min(s.last_page, s.marker + Len(next_line)),
                  !.pos = s.pos + Len(next_line)]

RECURSIVE up_times(_, _, _)
up_times(f, s, n) == IF n <= 0 THEN s ELSE up_times(f, up(f, s), n - 1)

RECURSIVE down_times(_, _, _)
down_times(f, s, n) == IF n <= 0 THEN s ELSE down_times(f, down(f, s), n - 1)

page_up(f, rws, s) == up_times(f, s, rws)

page_down(f, rws, s) == down_times(f, s, rws)

home(f, s) == [s EXCEPT !.marker = 0]

end_nopage(f, rws, s) == [s EXCEPT !.marker = size(f)]

end(f, rws, s) == page_up(f, rws, [s EXCEPT !.marker = size(f)])

\* the lines of get_page's loop: n readline calls from offset p
RECURSIVE read_lines(_, _, _)
read_lines(f, p, n) ==
    IF n <= 0 THEN <<>>
    ELSE LET line == readline(f, p)
         IN  <<replace_tabs(line)>> \o read_lines(f, p + Len(line), n - 1)

\* the position after n readline calls from offset p
RECURSIVE skip_lines(_, _, _)
skip_lines(f, p, n) ==
    IF n <= 0 THEN p ELSE skip_lines(f, p + Len(readline(f, p)), n - 1)

get_page_norestore(f, rws, s) ==
    [lines |-> read_lines(f, s.marker, rws),
     pager |-> [s EXCEPT !.pos = skip_lines(f, s.marker, rws)]]

\* the page returned and the pager afterwards
get_page(f, rws, s) ==
    [lines |-> read_lines(f, s.marker, rws),
     pager |-> [s EXCEPT !.pos = s.marker]]

\* the offset returned and the position the handle is left at
find_end(f, rws) ==
    LET atEnd == [marker |-> size(f), pos |-> size(f), last_page |-> 0]
        s == up_times(f, atEnd, rws)
    IN  [end |-> s.marker, pos |-> s.pos]

\* Pager.__init__
NewPager(f, rws) ==
    LET e == find_end(f, rws)
    IN  [marker |-> 0, pos |-> e.pos, last_page |-> e.end]

\* -------------------------------------------------------------- the lines
\* the lines of f as readline returns them, from offset p on
RECURSIVE LinesFrom(_, _)
LinesFrom(f, p) ==
    IF p >= Len(f) THEN <<>>
    ELSE LET line == readline(f, p)
         IN  <<line>> \o LinesFrom(f, p + Len(line))

Lines(f) == LinesFrom(f, 0)

\* the offset at which line k (1-based) of f starts
RECURSIVE LineStart(_, _)
LineStart(f, k) ==
    IF k <= 1 THEN 0 ELSE LineStart(f, k - 1) + Len(Lines(f)[k - 1])

LineStarts(f) == {LineStart(f, k) : k \in 1..Len(Lines(f))}

\* the text of a line without its terminator
Chomp(line) ==
    IF line # <<>> /\ line[Len(line)] = NL
    THEN SubSeq(line, 1, Len(line) - 1) ELSE line

\* ------------------------------------------------------------------- grep -b
\* The outputs grep -b can give with exit status 0: the ascending offsets of
\* the lines whose text is in a non-empty set of texts chosen by the pattern.
grep_b(f) ==
    LET texts == {Chomp(Lines(f)[k]) : k \in 1..Len(Lines(f))}
        hits(T) == {LineStart(f, k) : k \in {j \in 1..Len(Lines(f)) :
                                              Chomp(Lines(f)[j]) \in T}}
    IN  {hits(T) : T \in (SUBSET texts) \ {{}}}

\* ------------------------------------------------------------ terminal size
\* getheight on a POSIX system: ws_row is 0 when the ioctl fails
getheight(ws_row) == ws_row - 1

\* ------------------------------------------------------------------- state
VARIABLES
    files,      \* the bytes of the file of each pane
    rows,       \* Pager.rows, the same for every pane
    pagers,     \* MultiPager.pagers: the Pager of each pane
    text,       \* PagerUI.text: the page last rendered for each pane
    focus,      \* window.focus_position, 0-based
    searching,  \* whether the pane shows a SearchBox
    running,    \* whether the main loop runs
    fi_closed,  \* whether Pager.fi has been closed
    hist,       \* history: the operations since the marker values m0
    mess        \* mess.py: the state of its main loop

vars == <<files, rows, pagers, text, focus, searching, running, fi_closed,
          hist, mess>>

\* mess.py is a program of its own: it is not running in a melvin session
NoMess == [pc |-> "none"]

Panes == 1..Len(files)

Markers == [p \in Panes |-> pagers[p].marker]

Focused == focus + 1

Backward == {"up", "page up", "back"}
Forward == {"down", "page down", "fwd"}

\* ----------------------------------------------------------------- history
\* hist describes the latest events.  With n = 0: the event base has just
\* happened and m0 holds the marker values before it.  With n > 0: n
\* navigation operations described by kind have happened since m0, and they
\* came right after the event base when base is "open", "home" or "end".
\* ret is what the last event returned.
Began(ev, r) ==
    [base |-> ev, m0 |-> Markers, kind |-> "none", n |-> 0, ret |-> r]

Anchors == {"open", "home", "end"}

Joined(op) ==
    IF hist.kind = "page up" /\ hist.n = 1 /\ op = "page down"
    THEN "page up, page down"
    ELSE IF hist.kind = "get_page" /\ op = "get_page" THEN "get_page"
    ELSE IF hist.base \notin Anchors THEN "no"
    ELSE IF hist.kind \in {"none", op} THEN op
    ELSE IF hist.kind \in Backward /\ op \in Backward THEN "back"
    ELSE IF hist.kind \in Forward /\ op \in Forward THEN "fwd"
    ELSE "no"

\* the run is continued when op fits it, and a new run starts otherwise
Continued(op) ==
    IF hist.n = 0 /\ hist.base \in Anchors
    THEN [hist EXCEPT !.m0 = Markers, !.kind = op, !.n = 1, !.ret = <<>>]
    ELSE IF hist.n > 0 /\ hist.n < MaxRun /\ Joined(op) # "no"
    THEN [hist EXCEPT !.kind = Joined(op), !.n = hist.n + 1]
    ELSE [base |-> "none", m0 |-> Markers, kind |-> op, n |-> 1, ret |-> <<>>]

\* ------------------------------------------------------------------- start
\* MultiPager.__init__: one Pager and one PagerUI per file
Init ==
    \E n \in 1..MaxPanes, ws_row \in 0..MaxWsRow :
      \E fs \in FileLists(n) :
        LET rws == (getheight(ws_row) + 1) \div n
            pg == [p \in 1..n |-> get_page(fs[p], rws, NewPager(fs[p], rws))]
        IN  /\ files = fs
            /\ rows = rws
            /\ pagers = [p \in 1..n |-> pg[p].pager]
            /\ text = [p \in 1..n |-> pg[p].lines]
            /\ focus = 0
            /\ searching = [p \in 1..n |-> FALSE]
            /\ running = TRUE
            /\ fi_closed = [p \in 1..n |-> FALSE]
            /\ hist = [base |-> "open", m0 |-> [p \in 1..n |-> 0],
                       kind |-> "none", n |-> 0, ret |-> <<>>]
            /\ mess = NoMess

\* only the focused pane is rendered again
RefreshFocused(ps) ==
    LET pg == get_page(files[Focused], rows, ps[Focused])
    IN  /\ pagers' = [ps EXCEPT ![Focused] = pg.pager]
        /\ text' = [text EXCEPT ![Focused] = pg.lines]

\* PagerUI.refresh on every pane, after the pagers have become ps
RefreshAll(ps) ==
    LET pg == [p \in Panes |-> get_page(files[p], rows, ps[p])]
    IN  /\ pagers' = [p \in Panes |-> pg[p].pager]
        /\ text' = [p \in Panes |-> pg[p].lines]

\* a key reaches handle_input unless the focused pane's SearchBox takes it
Unhandled == running /\ ~searching[Focused]

\* ------------------------------------------------------------ handle_input
KeyUp ==
    /\ Unhandled
    /\ RefreshAll([p \in Panes |-> up(files[p], pagers[p])])
    /\ hist' = Continued("up")
    /\ UNCHANGED <<mess, files, rows, focus, searching, running, fi_closed>>

\* the key moves the focused pane only
KeyDown_focused ==
    /\ Unhandled
    /\ RefreshAll([p \in Panes |-> IF p = Focused
                                   THEN down(files[p], pagers[p])
                                   ELSE pagers[p]])
    /\ hist' = Continued("down")
    /\ UNCHANGED <<mess, files, rows, focus, searching, running, fi_closed>>

KeyDown ==
    /\ Unhandled
    /\ RefreshAll([p \in Panes |-> down(files[p], pagers[p])])
    /\ hist' = Continued("down")
    /\ UNCHANGED <<mess, files, rows, focus, searching, running, fi_closed>>

KeyPageUp ==
    /\ Unhandled
    /\ RefreshAll([p \in Panes |-> page_up(files[p], rows, pagers[p])])
    /\ hist' = Continued("page up")
    /\ UNCHANGED <<mess, files, rows, focus, searching, running, fi_closed>>

KeyPageDown ==
    /\ Unhandled
    /\ RefreshAll([p \in Panes |-> page_down(files[p], rows, pagers[p])])
    /\ hist' = Continued("page down")
    /\ UNCHANGED <<mess, files, rows, focus, searching, running, fi_closed>>

KeyHome ==
    /\ Unhandled
    /\ RefreshAll([p \in Panes |-> home(files[p], pagers[p])])
    /\ hist' = Began("home", <<>>)
    /\ UNCHANGED <<mess, files, rows, focus, searching, running, fi_closed>>

KeyEnd ==
    /\ Unhandled
    /\ RefreshAll([p \in Panes |-> end(files[p], rows, pagers[p])])
    /\ hist' = Began("end", <<>>)
    /\ UNCHANGED <<mess, files, rows, focus, searching, running, fi_closed>>

\* '/': PagerUI.add_search on the focused pane.  The SearchBox that the
\* code appends to the pane is the flag searching; it takes the keys of its
\* pane from then on.
KeySlash ==
    /\ Unhandled
    /\ searching' = [searching EXCEPT ![Focused] = TRUE]
    /\ RefreshAll(pagers)
    /\ hist' = Began("/", <<>>)
    /\ UNCHANGED <<mess, files, rows, focus, running, fi_closed>>

\* the run of 'tab' keys that this one continues or starts: the focus
\* position before the run and the number of keys in it
TabRun ==
    IF hist.base = "tab" /\ hist.n = 0 /\ hist.ret[2] < MaxRun
    THEN <<hist.ret[1], hist.ret[2] + 1>>
    ELSE <<focus, 1>>

\* the focus stops at the last pane
KeyTab_nowrap ==
    /\ running
    /\ focus' = Min(focus + 1, Len(files) - 1)
    /\ RefreshAll(pagers)
    /\ hist' = Began("tab", TabRun)
    /\ UNCHANGED <<mess, files, rows, searching, running, fi_closed>>

\* 'tab', which the SearchBox hands on as well
KeyTab ==
    /\ running
    /\ focus' = (focus + 1) % Len(files)
    /\ RefreshAll(pagers)
    /\ hist' = Began("tab", TabRun)
    /\ UNCHANGED <<mess, files, rows, searching, running, fi_closed>>

\* 'q' or 'Q': ExitMainLoop is raised before the refresh
KeyQuit ==
    /\ Unhandled
    /\ running' = FALSE
    /\ hist' = Began("q", <<>>)
    /\ UNCHANGED <<mess, files, rows, pagers, text, focus, searching, fi_closed>>

\* any other key: the refresh only
KeyOther ==
    /\ Unhandled
    /\ RefreshAll(pagers)
    /\ hist' = Began("other", <<>>)
    /\ UNCHANGED <<mess, files, rows, focus, searching, running, fi_closed>>

\* The terminal is resized to ws_row rows, which makes the height of a pane
\* h2.  The code has no handler for it and reads the size of the terminal
\* in MultiPager.__init__ only: nothing of the session changes.
Resize ==
    /\ running
    /\ \E ws_row \in 0..MaxWsRow :
         LET h2 == (getheight(ws_row) + 1) \div Len(files)
         IN  /\ h2 # rows
             /\ hist' = Began("resize", <<h2>>)
    /\ UNCHANGED <<mess, files, rows, pagers, text, focus, searching, running,
                   fi_closed>>

\* SIGINT: handler raises ExitMainLoop
Sigint ==
    /\ running
    /\ running' = FALSE
    /\ hist' = Began("sigint", <<>>)
    /\ UNCHANGED <<mess, files, rows, pagers, text, focus, searching, fi_closed>>

\* ---------------------------------------------- SearchBox.keypress / search
\* 'enter', grep exits with 0: the marker moves to the first offset, the
\* pane is refreshed and the SearchBox removed
SearchFound ==
    /\ running /\ searching[Focused]
    /\ \E hits \in grep_b(files[Focused]) :
         LET offsets == [i \in 1..Cardinality(hits) |->
                           CHOOSE o \in hits :
                             Cardinality({x \in hits : x < o}) = i - 1]
             pg == get_page(files[Focused], rows,
                            [pagers[Focused] EXCEPT !.marker = offsets[1]])
         IN  /\ pagers' = [pagers EXCEPT ![Focused] = pg.pager]
             /\ text' = [text EXCEPT ![Focused] = pg.lines]
             /\ hist' = Began("search found", offsets)
    /\ searching' = [searching EXCEPT ![Focused] = FALSE]
    /\ UNCHANGED <<mess, files, rows, focus, running, fi_closed>>

\* 'enter', grep exits with 1: CalledProcessError, no offsets
SearchNotFound ==
    /\ running /\ searching[Focused]
    /\ hist' = Began("search none", <<>>)
    /\ UNCHANGED <<mess, files, rows, pagers, text, focus, searching, running,
                   fi_closed>>

\* 'enter', grep exits with 2 or more: CalledProcessError, no offsets
SearchToolError ==
    /\ running /\ searching[Focused]
    /\ hist' = Began("search error", <<>>)
    /\ UNCHANGED <<mess, files, rows, pagers, text, focus, searching, running,
                   fi_closed>>

\* 'enter', grep cannot be started: check_output raises OSError, which
\* search does not catch
SearchLaunchFailure ==
    /\ running /\ searching[Focused]
    /\ running' = FALSE
    /\ hist' = Began("search oserror", <<>>)
    /\ UNCHANGED <<mess, files, rows, pagers, text, focus, searching, fi_closed>>

\* 'esc': PagerUI.remove_search
SearchEsc ==
    /\ running /\ searching[Focused]
    /\ searching' = [searching EXCEPT ![Focused] = FALSE]
    /\ hist' = Began("esc", <<>>)
    /\ UNCHANGED <<mess, files, rows, pagers, text, focus, running, fi_closed>>

Next ==
    \/ KeyUp \/ KeyDown \/ KeyPageUp \/ KeyPageDown \/ KeyHome \/ KeyEnd
    \/ KeySlash \/ KeyTab \/ KeyQuit \/ KeyOther \/ Resize \/ Sigint
    \/ SearchFound \/ SearchNotFound \/ SearchToolError
    \/ SearchLaunchFailure \/ SearchEsc

Spec == Init /\ [][Next]_vars

\* the session in which only navigation and focus keys are pressed
NextNav ==
    \/ KeyUp \/ KeyDown \/ KeyPageUp \/ KeyPageDown \/ KeyHome \/ KeyEnd
    \/ KeyTab

SpecNav == Init /\ [][NextNav]_vars

\* ------------------------------------------------- the Pager class alone
\* Pager.__init__ without a PagerUI: nothing has been rendered and the handle
\* is where find_end left it
InitPager ==
    \E f \in FilesUpTo(MaxBytes), rws \in 0..MaxWsRow :
        /\ files = <<f>>
        /\ rows = rws
        /\ pagers = <<NewPager(f, rws)>>
        /\ text = << <<>> >>
        /\ focus = 0
        /\ searching = <<FALSE>>
        /\ running = TRUE
        /\ fi_closed = <<FALSE>>
        /\ hist = [base |-> "open", m0 |-> <<0>>, kind |-> "none", n |-> 0,
                   ret |-> <<>>]
        /\ mess = NoMess

CallUp ==
    /\ pagers' = [p \in Panes |-> up(files[p], pagers[p])]
    /\ hist' = Continued("up")
    /\ UNCHANGED <<mess, files, rows, text, focus, searching, running, fi_closed>>

CallDown ==
    /\ pagers' = [p \in Panes |-> down(files[p], pagers[p])]
    /\ hist' = Continued("down")
    /\ UNCHANGED <<mess, files, rows, text, focus, searching, running, fi_closed>>

CallPageUp ==
    /\ pagers' = [p \in Panes |-> page_up(files[p], rows, pagers[p])]
    /\ hist' = Continued("page up")
    /\ UNCHANGED <<mess, files, rows, text, focus, searching, running, fi_closed>>

CallPageDown ==
    /\ pagers' = [p \in Panes |-> page_down(files[p], rows, pagers[p])]
    /\ hist' = Continued("page down")
    /\ UNCHANGED <<mess, files, rows, text, focus, searching, running, fi_closed>>

CallHome ==
    /\ pagers' = [p \in Panes |-> home(files[p], pagers[p])]
    /\ hist' = Began("home", <<>>)
    /\ UNCHANGED <<mess, files, rows, text, focus, searching, running, fi_closed>>

CallEnd ==
    /\ pagers' = [p \in Panes |-> end(files[p], rows, pagers[p])]
    /\ hist' = Began("end", <<>>)
    /\ UNCHANGED <<mess, files, rows, text, focus, searching, running, fi_closed>>

CallGetPage ==
    /\ RefreshAll(pagers)
    /\ hist' = Continued("get_page")
    /\ UNCHANGED <<mess, files, rows, focus, searching, running, fi_closed>>

NextPager ==
    \/ CallUp \/ CallDown \/ CallPageUp \/ CallPageDown
    \/ CallHome \/ CallEnd \/ CallGetPage

SpecPager == InitPager /\ [][NextPager]_vars

\* ================================================================== claims
NumLines(f) == Len(Lines(f))

\* every line of f is shorter than the scan buffer
LinesShort(f) == \A k \in 1..NumLines(f) : Len(Chomp(Lines(f)[k])) < BufSize

\* offset m is where a line of f starts
AtLineStart(f, m) == m = 0 \/ (m <= Len(f) /\ f[m] = NL)

\* what a page of h lines that starts with line k of f shows
PageAt(f, k, h) == [i \in 1..h |-> replace_tabs(Lines(f)[k + i - 1])]

Dist(a, b) == IF a < b THEN b - a ELSE a - b

\* C1: with lines shorter than the scan buffer and a viewport of at least
\* one line, after any navigation the marker of every pager is 0 or follows
\* a line terminator.
C1_MarkerAtLineStart ==
    \A p \in Panes :
        (rows >= 1 /\ LinesShort(files[p])) =>
            AtLineStart(files[p], pagers[p].marker)

\* C2: over any file, lines longer than the scan buffer and the empty file
\* included, every call of the Pager keeps 0 <= marker <= last_page.
C2_MarkerWithinBounds ==
    \A p \in Panes :
        pagers[p].marker \in 0..pagers[p].last_page

C2_Witness ==
    /\ hist.kind = "down" /\ hist.n >= 2
    /\ ~LinesShort(files[1])
    /\ pagers[1].last_page > 0
    /\ pagers[1].marker = pagers[1].last_page

\* C3: right after end(), on a file of at least rows lines, the page shown
\* is the last rows lines of the file, in order.
C3_EndShowsLastLines ==
    (hist.base = "end" /\ hist.n = 0) =>
        \A p \in Panes :
            NumLines(files[p]) >= rows =>
                text[p] = PageAt(files[p], NumLines(files[p]) - rows + 1, rows)

\* C4: with lines shorter than the scan buffer, one up() from the start of
\* line k >= 1 (counted from 0) leaves the marker at the start of line k - 1.
C4_UpReachesPreviousLine ==
    (hist.kind = "up" /\ hist.n = 1) =>
        \A p \in Panes : \A k \in 2..NumLines(files[p]) :
            (rows >= 1 /\ LinesShort(files[p])
                /\ hist.m0[p] = LineStart(files[p], k)) =>
                pagers[p].marker = LineStart(files[p], k - 1)

\* C5: home() and then k down() keys, k <= N - H, leave the marker at the
\* start of line k + 1 and the page showing lines k + 1 .. k + H.
C5_DownsFromHome ==
    (hist.base = "home" /\ hist.kind \in {"none", "down"}) =>
        \A p \in Panes :
            (rows >= 1 /\ hist.n <= NumLines(files[p]) - rows) =>
                /\ pagers[p].marker = LineStart(files[p], hist.n + 1)
                /\ text[p] = PageAt(files[p], hist.n + 1, rows)

RoundTripStart(p) ==
    /\ LinesShort(files[p])
    /\ hist.m0[p] <= pagers[p].last_page
    /\ \E k \in (rows + 1)..NumLines(files[p]) :
           hist.m0[p] = LineStart(files[p], k)

C7_MarkerBoundedInSession ==
    \A p \in Panes :
        /\ pagers[p].marker >= 0
        /\ pagers[p].marker <= pagers[p].last_page
        /\ (hist.n = 0 /\ hist.base \notin Anchors \cup {"search found"}) =>
               pagers[p].marker = hist.m0[p]

\* C8: get_page leaves marker as it was and the handle at marker, and a
\* second get_page right after the first returns the same page.
C8_RenderKeepsMarker ==
    [][(hist'.kind = "get_page" /\ hist' # hist) =>
          \A p \in Panes :
              /\ pagers'[p].marker = pagers[p].marker
              /\ pagers'[p].pos = pagers'[p].marker
              /\ (hist.kind = "get_page" => text'[p] = text[p])]_vars

C8_Witness ==
    /\ hist.kind = "get_page" /\ hist.n >= 2
    /\ pagers[1].marker > 0
    /\ Len(text[1]) >= 2 /\ text[1][1] # <<>>

\* C9: after home(), any number of up() and page_up() leaves marker = 0.
C9_HomeThenUpsStayAtZero ==
    (hist.base = "home" /\ hist.kind \in {"none"} \cup Backward) =>
        \A p \in Panes : pagers[p].marker = 0

C9_Witness ==
    /\ hist.base = "home" /\ hist.kind = "back" /\ hist.n >= 2
    /\ rows >= 1
    /\ Len(files[1]) > 1
    /\ pagers[1].marker = 0

\* C10: a search with matches moves the searched pane's marker to the first
\* offset returned and no other marker; a search without matches, or whose
\* tool fails, moves no marker and the session goes on.
C10_SearchContained ==
    /\ (hist.base = "search found" /\ hist.n = 0) =>
           /\ pagers[Focused].marker = hist.ret[1]
           /\ \A p \in Panes \ {Focused} : pagers[p].marker = hist.m0[p]
    /\ (hist.base \in {"search none", "search error", "search oserror"}
            /\ hist.n = 0) =>
           /\ Markers = hist.m0
           /\ running

\* ------------------------------------------------------------------ mess.py
\* mess.py pages a file by an index of the offsets of its lines; its marker
\* is an index into offsets, 0-based as in the code.

\* build_offsets: the offset at which each line of the file starts
build_offsets(f) == [k \in 1..Len(Lines(f)) |-> LineStart(f, k)]

\* getheight of mess.py on a POSIX system, as in melvin.py
mess_getheight(ws_row) == ws_row - 1

\* the lines page prints: n readline calls from offset p, '' at end of file
RECURSIVE print_lines(_, _, _)
print_lines(f, p, n) ==
    IF n <= 0 THEN <<>>
    ELSE LET line == readline(f, p)
         IN  <<line>> \o print_lines(f, p + Len(line), n - 1)

\* page(fi, offsets, marker): offsets[marker] raises IndexError when marker
\* is not an index of offsets; otherwise height lines are printed and main
\* waits for the next key
page(m) ==
    IF m.marker >= Len(m.offsets)
    THEN [m EXCEPT !.pc = "IndexError"]
    ELSE [m EXCEPT !.pc = "getchars",
                   !.printed = print_lines(m.fi, m.offsets[m.marker + 1],
                                           m.height)]

\* main(fi) up to the first getchars()
InitMess ==
    /\ \E f \in FilesUpTo(MaxBytes), ws_row \in 0..MaxWsRow :
         mess = page([pc |-> "page", fi |-> f, offsets |-> build_offsets(f),
                      marker |-> 0, height |-> mess_getheight(ws_row),
                      char |-> "none", printed |-> <<>>])
    /\ files = <<>>
    /\ rows = 0
    /\ pagers = <<>>
    /\ text = <<>>
    /\ focus = 0
    /\ searching = <<>>
    /\ running = FALSE
    /\ fi_closed = <<>>
    /\ hist = [base |-> "none", m0 |-> <<>>, kind |-> "none", n |-> 0,
               ret |-> <<>>]

\* one turn of the loop of main: the key read by getchars() is handled and
\* the page is printed again
MessUp ==
    /\ mess.pc = "getchars"
    /\ mess' = page([mess EXCEPT
                        !.char = "UP",
                        !.marker = IF mess.marker > 0 THEN mess.marker - 1
                                   ELSE mess.marker])
    /\ UNCHANGED <<files, rows, pagers, text, focus, searching, running,
                   fi_closed, hist>>

MessDown ==
    /\ mess.pc = "getchars"
    /\ mess' = page([mess EXCEPT
                        !.char = "DOWN",
                        !.marker = IF mess.marker < mess.height
                                   THEN mess.marker + 1 ELSE mess.marker])
    /\ UNCHANGED <<files, rows, pagers, text, focus, searching, running,
                   fi_closed, hist>>

\* 'q': sys.exit()
MessQuit ==
    /\ mess.pc = "getchars"
    /\ mess' = [mess EXCEPT !.char = "q", !.pc = "exit"]
    /\ UNCHANGED <<files, rows, pagers, text, focus, searching, running,
                   fi_closed, hist>>

\* any other key
MessOther ==
    /\ mess.pc = "getchars"
    /\ mess' = page([mess EXCEPT !.char = "other"])
    /\ UNCHANGED <<files, rows, pagers, text, focus, searching, running,
                   fi_closed, hist>>

NextMess == MessUp \/ MessDown \/ MessQuit \/ MessOther

SpecMess == InitMess /\ [][NextMess]_vars

\* ------------------------------------------------------------ claims C11-C20
\* C11: a navigation key is applied once to every pane whichever pane has
\* the focus: after any sequence of navigation and focus keys, two panes
\* that show files of the same contents have the same marker.
C11_SameFilesSameMarkers ==
    \A p, q \in Panes :
        files[p] = files[q] => pagers[p].marker = pagers[q].marker

\* two panes on one contents have moved together while the second pane had
\* the focus
C11_Witness ==
    /\ Len(files) = 2 /\ files[1] = files[2] /\ rows >= 1
    /\ focus = 1
    /\ hist.kind = "down" /\ hist.n >= 1
    /\ pagers[1].marker > hist.m0[1]
    /\ pagers[1].marker = pagers[2].marker

\* C12: once the main loop has ended, by 'q' or by an interrupt, the file
\* handle of every Pager has been closed.
C12_HandlesClosedAtExit ==
    ~running => \A p \in Panes : fi_closed[p]

\* C13: when a resize of the terminal makes the height of a pane h2, the
\* height of every pager becomes h2 and last_page is computed again for it,
\* so that an end() that follows renders h2 lines and leaves the marker at
\* most last_page.
C13_ResizeRecomputes ==
    (hist.base = "resize" /\ hist.n = 0) =>
        LET h2 == hist.ret[1]
        IN  /\ rows = h2
            /\ \A p \in Panes :
                 LET after == get_page(files[p], rows,
                                       end(files[p], rows, pagers[p]))
                 IN  /\ pagers[p].last_page = find_end(files[p], h2).end
                     /\ Len(after.lines) = h2
                     /\ after.pager.marker <= after.pager.last_page

\* C14: the height that every pager gets is at least 1, for every number
\* of panes and every outcome of the detection of the terminal's size.
C14_HeightAtLeastOne == rows >= 1

\* C15: a 'tab' moves the focus from pane i to pane (i + 1) mod N, so that
\* N 'tab' keys in a row bring the focus back to where it was; no other
\* event changes the focus.
C15_TabCyclesFocus ==
    [][IF hist'.base = "tab"
       THEN /\ focus' = (focus + 1) % Len(files)
            /\ hist'.ret[2] = Len(files) => focus' = hist'.ret[1]
       ELSE focus' = focus]_vars

\* two 'tab' keys in a row on two panes, begun on the second pane
C15_Witness ==
    /\ Len(files) = 2
    /\ hist.base = "tab" /\ hist.ret = <<1, 2>>
    /\ focus = 1

\* C16: end() leaves the marker equal to last_page whatever the state
\* before it, and down() and page_down() after it leave the marker there.
C16_EndIsLastPage ==
    (hist.base = "end" /\ hist.kind \in {"none"} \cup Forward) =>
        \A p \in Panes : pagers[p].marker = pagers[p].last_page

\* end() and then MaxRun down() and page_down(), on a file whose last page
\* does not start at offset 0
C16_Witness ==
    /\ rows >= 1
    /\ hist.base = "end" /\ hist.kind = "fwd" /\ hist.n = MaxRun
    /\ pagers[1].last_page > 0
    /\ pagers[1].marker = pagers[1].last_page

\* C17: whenever a key is dispatched, the handle of every pager is at the
\* pager's marker.
C17_PositionAtMarker ==
    \A p \in Panes : pagers[p].pos = pagers[p].marker

\* a page up has moved the marker of the second pane, which does not have
\* the focus, and the next key finds its handle at the marker
C17_Witness ==
    /\ running /\ rows >= 1 /\ Len(files) = 2 /\ focus = 0
    /\ hist.kind = "page up" /\ hist.n = 1
    /\ pagers[2].marker < hist.m0[2]
    /\ pagers[2].pos = pagers[2].marker

\* C18: up() and down() do not stall between the bounds: an up() at a
\* marker above 0 lowers the marker and a down() at a marker below
\* last_page raises it, so that repeating either reaches its bound after
\* at most last_page calls.
C18_NoStall ==
    /\ (hist.kind = "up" /\ hist.n = 1) =>
          \A p \in Panes : hist.m0[p] > 0 => pagers[p].marker < hist.m0[p]
    /\ (hist.kind = "down" /\ hist.n = 1) =>
          \A p \in Panes :
              hist.m0[p] < pagers[p].last_page
                  => pagers[p].marker > hist.m0[p]

\* an up() between the bounds that has not reached offset 0
C18_Witness ==
    /\ rows >= 1
    /\ hist.kind = "up" /\ hist.n = 1
    /\ hist.m0[1] < pagers[1].last_page
    /\ pagers[1].marker > 0
    /\ pagers[1].marker < hist.m0[1]

\* C19: in every state of a session, down() and page_down() do not lower
\* the marker and up() and page_up() do not raise it.
C19_NavigationMonotone ==
    /\ (hist.kind \in {"down", "page down"} /\ hist.n = 1) =>
          \A p \in Panes : pagers[p].marker >= hist.m0[p]
    /\ (hist.kind \in {"up", "page up"} /\ hist.n = 1) =>
          \A p \in Panes : pagers[p].marker <= hist.m0[p]

\* C20: in mess.py the marker that main passes to page() is an index of
\* offsets, for every file with at least one line, every sequence of UP and
\* DOWN keys and every height of the terminal.
C20_MarkerIndexesOffsets ==
    (mess.pc # "none" /\ mess.offsets # <<>>) =>
        /\ 0 <= mess.marker
        /\ mess.marker < Len(mess.offsets)
====
